---- MODULE Spec2Model ----
(***************************************************************************)
(* imapfs: a filesystem whose files and directories are IMAP messages.     *)
(*                                                                         *)
(* The model follows src/imapfs/imapconnection.py (IMAPConnection),         *)
(* src/imapfs/message.py (Message) and src/imapfs/fs.py (IMAPFS).  The      *)
(* modules imapfs.file and imapfs.directory are imported by fs.py but are  *)
(* not part of the sources at hand; File and Directory are modelled from   *)
(* the written specification (sections 4.3 and 6).                          *)
(*                                                                         *)
(* The mailbox is a sequence of messages; the UID of a message is its      *)
(* index.  The program never expunges (imapconnection.py:103), so a        *)
(* message flagged \Deleted stays in the mailbox, and, as in RFC 3501, a   *)
(* SEARCH SUBJECT or a UID FETCH still finds it.                           *)
(*                                                                         *)
(* fs.py is Python 2 source (octal literals 0777), so str(bytearray) is    *)
(* the byte string itself.                                                 *)
(*                                                                         *)
(* One dispatcher call is one handler action (path resolution and all      *)
(* in-memory work up to the first store mutation) followed by the store    *)
(* mutations it still has to do, kept in todo and executed one per step;   *)
(* no other call starts while todo is not empty.  Crash ends the session   *)
(* at any point: memory is lost, the mailbox stays.                        *)
(***************************************************************************)
EXTENDS Integers, Sequences, FiniteSets, TLC

\* ---- bounds ----
MaxVersions == 5      \* messages ever appended to the mailbox
MaxNames == 2         \* names handed out by uuid4 (besides ROOT)
MaxLen == 1           \* longest buffer written by one write call
MaxOff == 0           \* largest offset of a read or write call
MaxCrash == 1         \* sessions that end in a crash
MaxSize == 2          \* largest size of a truncate call
MaxStore == 3         \* messages appended by direct calls on the connection

\* ---- program constants ----
ROOT == 0             \* the all-zero uuid
TagF == 102           \* 'f'
TagD == 100           \* 'd'
CR == 13
LF == 10
Slash == 47           \* '/'
Filler == 46          \* '.'
Pad == 64             \* the '=' of base64, after the 64 digits 0..63
KeyBase == 48         \* a child key n is written as the byte 48 + n

None == -1            \* Python's None where a Name is expected
Raised == -2          \* an exception left the call

Names == 0..MaxNames
ByteVals == {0, 255}                 \* bytes a caller writes
\* "/", "/a", "/a/b"
Paths == { <<Slash>>, <<Slash, 97>>, <<Slash, 97, Slash, 98>> }
Bufs == UNION { [1..n -> ByteVals] : n \in 0..MaxLen }

VARIABLES versions, uid_cache, open_nodes, todo, io, last, mounted,
          uidplus, nextName, crashes, rt, expunged, thr

vars == <<versions, uid_cache, open_nodes, todo, io, last, mounted,
          uidplus, nextName, crashes, rt, expunged, thr>>

\* what only the mailbox's other users and the worker threads change
env == <<expunged, thr>>

\* ---- sequences as Python slices ----
Min(a, b) == IF a < b THEN a ELSE b
Max(a, b) == IF a > b THEN a ELSE b

\* s[a:b] with 0-based a, b >= 0
Slice(s, a, b) ==
  LET lo == Min(a, Len(s))
      hi == Min(b, Len(s))
  IN IF hi <= lo THEN <<>> ELSE SubSeq(s, lo + 1, hi)

Fill(n) == [i \in 1..n |-> Filler]

\* ---- base64 (imapconnection.py:17, 69, 80) ----
RECURSIVE b64encode(_)
b64encode(s) ==
  IF Len(s) = 0 THEN <<>>
  ELSE IF Len(s) = 1 THEN
    LET n == s[1] * 65536
    IN << n \div 262144, (n \div 4096) % 64, Pad, Pad >>
  ELSE IF Len(s) = 2 THEN
    LET n == s[1] * 65536 + s[2] * 256
    IN << n \div 262144, (n \div 4096) % 64, (n \div 64) % 64, Pad >>
  ELSE
    LET n == s[1] * 65536 + s[2] * 256 + s[3]
    IN << n \div 262144, (n \div 4096) % 64, (n \div 64) % 64, n % 64 >>
       \o b64encode(SubSeq(s, 4, Len(s)))

RECURSIVE b64decode(_)
b64decode(t) ==
  IF Len(t) < 4 THEN <<>>
  ELSE
    LET a == t[1]
        b == t[2]
        c == IF t[3] = Pad THEN 0 ELSE t[3]
        d == IF t[4] = Pad THEN 0 ELSE t[4]
        n == a * 262144 + b * 4096 + c * 64 + d
        three == << n \div 65536, (n \div 256) % 256, n % 256 >>
        k == IF t[3] = Pad THEN 1 ELSE IF t[4] = Pad THEN 2 ELSE 3
    IN SubSeq(three, 1, k) \o b64decode(SubSeq(t, 5, Len(t)))

\* ---- IMAPConnection (imapconnection.py) ----
\* A session is S = [v: the mailbox, c: uid_cache, on: open_nodes, io: the
\* IMAP commands sent so far in this step].  A uid of 0 is Python's None.

Sent(S, cmd) == [S EXCEPT !.io = Append(@, cmd)]

\* an exception raised inside the connection, recorded with the commands
Escaped(S, exc) == [S EXCEPT !.io = Append(@, exc)]

\* SEARCH SUBJECT: the uids of the messages with that subject that are still
\* in the mailbox, ascending; <<>> stands for None
search_by_subject(v, subject) ==
  LET F[i \in 0..Len(v)] ==
        IF i = 0 THEN <<>>
        ELSE IF v[i].subject = subject /\ i \notin expunged THEN Append(F[i - 1], i)
        ELSE F[i - 1]
  IN F[Len(v)]

\* the lookup that takes the first search result, not the last
get_uid_by_subject_first(S, subject) ==
  IF S.c[subject] # 0 THEN [S |-> S, r |-> S.c[subject]]
  ELSE
    LET results == search_by_subject(S.v, subject)
        S1 == Sent(S, "SEARCH")
    IN IF results = <<>> THEN [S |-> S1, r |-> 0]
       ELSE [S |-> [S1 EXCEPT !.c[subject] = results[1]], r |-> results[1]]

get_uid_by_subject(S, subject) ==
  IF S.c[subject] # 0 THEN [S |-> S, r |-> S.c[subject]]
  ELSE
    LET results == search_by_subject(S.v, subject)
        S1 == Sent(S, "SEARCH")
    IN IF results = <<>> THEN [S |-> S1, r |-> 0]
       ELSE [S |-> [S1 EXCEPT !.c[subject] = results[Len(results)]],
             r |-> results[Len(results)]]

\* the purge of get_message (imapconnection.py:63-65): the loop runs over the
\* live items() view, so the pop of the matching entry makes the next step
\* of the iteration raise RuntimeError
Purge(S, uid) ==
  IF \E n \in Names : S.c[n] = uid
  THEN Escaped([S EXCEPT !.c = [n \in Names |-> IF S.c[n] = uid THEN 0 ELSE S.c[n]]],
               "RuntimeError")
  ELSE S

\* r.ok = FALSE stands for None, or for the exception recorded in S.io
get_message(S, uid) ==
  IF uid = 0 THEN [S |-> S, ok |-> FALSE, data |-> <<>>]
  ELSE IF uid \notin DOMAIN S.v \/ uid \in expunged
    THEN [S |-> Purge(Sent(S, "FETCH"), uid), ok |-> FALSE, data |-> <<>>]
  ELSE [S |-> Sent(S, "FETCH"), ok |-> TRUE, data |-> b64decode(S.v[uid].data)]

\* the put that leaves the cache entry of the subject as it is
put_message_keep(S, subject, data) ==
  LET new_uid == Len(S.v) + 1
      S1 == Sent([S EXCEPT !.v = Append(@, [subject |-> subject,
                                             data |-> b64encode(data),
                                             deleted |-> FALSE])], "APPEND")
  IN IF uidplus THEN [S1 EXCEPT !.c[subject] = new_uid] ELSE S1

put_message(S, subject, data) ==
  LET new_uid == Len(S.v) + 1
      S1 == Sent([S EXCEPT !.c[subject] = 0,
                           !.v = Append(@, [subject |-> subject,
                                             data |-> b64encode(data),
                                             deleted |-> FALSE])], "APPEND")
  IN IF uidplus THEN [S1 EXCEPT !.c[subject] = new_uid] ELSE S1

\* the delete that retires every version of the subject up to uid
delete_message_all(S, uid) ==
  Sent([S EXCEPT !.v = [i \in DOMAIN S.v |->
                          IF i <= uid /\ uid \in DOMAIN S.v /\ S.v[i].subject = S.v[uid].subject
                          THEN [S.v[i] EXCEPT !.deleted = TRUE] ELSE S.v[i]],
                 !.c = [n \in Names |-> IF S.c[n] = uid THEN 0 ELSE S.c[n]]],
       "STORE")

delete_message(S, uid) ==
  Sent([S EXCEPT !.v = [i \in DOMAIN S.v |->
                          IF i = uid THEN [S.v[i] EXCEPT !.deleted = TRUE] ELSE S.v[i]],
                 !.c = [n \in Names |-> IF S.c[n] = uid THEN 0 ELSE S.c[n]]],
       "STORE")

\* ---- Message (message.py) ----
\* A node in memory is its Message plus its class: [cls, data, dirty, pos].
NoNode == [cls |-> "none", data |-> <<>>, dirty |-> FALSE, pos |-> 0]

MessageSeek(m, off) == [m EXCEPT !.pos = off]

\* read(size): [m |-> the message afterwards, buf |-> the bytes read]
MessageRead(m, size) ==
  LET sz == IF size + m.pos > Len(m.data) THEN Len(m.data) - m.pos ELSE size
  IN [m |-> [m EXCEPT !.pos = m.pos + sz],
      buf |-> Slice(m.data, m.pos, Max(m.pos + sz, 0))]

\* truncate that pads with zero bytes
MessageTruncate_zero(m, size) ==
  IF Len(m.data) > size
  THEN [m EXCEPT !.data = Slice(m.data, 0, size),
                 !.pos = IF m.pos > size THEN size ELSE m.pos,
                 !.dirty = TRUE]
  ELSE [m EXCEPT !.data = m.data \o [i \in 1..(size - Len(m.data)) |-> 0], !.dirty = TRUE]

\* truncate that does not mark the message dirty
MessageTruncate_clean(m, size) ==
  IF Len(m.data) > size
  THEN [m EXCEPT !.data = Slice(m.data, 0, size),
                 !.pos = IF m.pos > size THEN size ELSE m.pos]
  ELSE [m EXCEPT !.data = m.data \o Fill(size - Len(m.data))]

MessageTruncate(m, size) ==
  IF Len(m.data) > size
  THEN [m EXCEPT !.data = Slice(m.data, 0, size),
                 !.pos = IF m.pos > size THEN size ELSE m.pos,
                 !.dirty = TRUE]
  ELSE [m EXCEPT !.data = m.data \o Fill(size - Len(m.data)), !.dirty = TRUE]

\* write that forgets to mark the message dirty
MessageWrite_clean(m, buf) ==
  LET m1 == IF m.pos + Len(buf) > Len(m.data)
            THEN [m EXCEPT !.data = m.data \o Fill(m.pos + Len(buf) - Len(m.data))] ELSE m
  IN [m1 EXCEPT !.data = Slice(m1.data, 0, Min(m1.pos, Len(m1.data))) \o buf
                          \o Slice(m1.data, m1.pos + Len(buf), Len(m1.data)),
                !.pos = m1.pos + Len(buf)]

MessageWrite(m, buf) ==
  LET m1 == IF m.pos + Len(buf) > Len(m.data)
            THEN MessageTruncate(m, m.pos + Len(buf)) ELSE m
      lo == Min(m1.pos, Len(m1.data))
  IN [m1 EXCEPT !.data = Slice(m1.data, 0, lo) \o buf
                          \o Slice(m1.data, m1.pos + Len(buf), Len(m1.data)),
                !.pos = m1.pos + Len(buf),
                !.dirty = TRUE]

\* Message.open after the lookup u: ok = FALSE stands for the IOError
MessageOpenAt(u) ==
  IF u.r = 0 THEN [S |-> u.S, ok |-> FALSE, data |-> <<>>]
  ELSE get_message(u.S, u.r)

MessageOpen(S, name) == MessageOpenAt(get_uid_by_subject(S, name))

\* Message.unlink after the lookup u
MessageUnlinkAt(u) == IF u.r = 0 THEN u.S ELSE delete_message(u.S, u.r)

MessageUnlink(S, name) == MessageUnlinkAt(get_uid_by_subject(S, name))

\* the flush that deletes the old version before it appends the new one
MessageFlushAt_delfirst(u, name, m) ==
  [S |-> put_message(MessageUnlinkAt(u), name, m.data), old |-> u.r, put |-> TRUE]

\* Message.flush after the lookup u of the old uid, up to and including
\* put_message: old is the uid to delete afterwards (0: none)
MessageFlushAt(u, name, m) ==
  [S |-> put_message(u.S, name, m.data), old |-> u.r, put |-> TRUE]

\* the flush that does not look at the dirty flag
MessageFlushPut_always(S, name, m) ==
  MessageFlushAt(get_uid_by_subject(S, name), name, m)

\* Message.flush: put tells whether anything was sent
MessageFlushPut(S, name, m) ==
  IF m.dirty THEN MessageFlushAt(get_uid_by_subject(S, name), name, m)
  ELSE [S |-> S, old |-> 0, put |-> FALSE]

\* ---- File and Directory (imapfs.file, imapfs.directory: from the written
\* specification, sections 4.3 and 6) ----
\* A File's blob is 'f' followed by the content.  A Directory's blob is
\* 'd', the marker "\r\n", then one entry per child: the key byte, the
\* display name, "\n".

FileCreate == [cls |-> "File", data |-> <<TagF>>, dirty |-> TRUE, pos |-> 0]

DirectoryCreate == [cls |-> "Directory", data |-> <<TagD, CR, LF>>, dirty |-> TRUE, pos |-> 0]

FileSize(n) == Len(n.data) - 1

FileSeek(n, off) == MessageSeek(n, off + 1)

FileRead(n, size) == MessageRead(n, size)

FileWrite(n, buf) == MessageWrite(n, buf)

\* the child list of a directory blob: a sequence of [key, name]
RECURSIVE DecodeEntries(_)
DecodeEntries(b) ==
  IF Len(b) < 2 THEN <<>>
  ELSE
    LET stop == IF \E i \in 2..Len(b) : b[i] = LF
                THEN CHOOSE i \in 2..Len(b) : b[i] = LF /\ \A j \in 2..(i - 1) : b[j] # LF
                ELSE Len(b) + 1
    IN << [key |-> b[1] - KeyBase, name |-> SubSeq(b, 2, stop - 1)] >>
       \o DecodeEntries(SubSeq(b, stop + 1, Len(b)))

RECURSIVE EncodeEntries(_)
EncodeEntries(cs) ==
  IF cs = <<>> THEN <<>>
  ELSE << KeyBase + cs[1].key >> \o cs[1].name \o << LF >> \o EncodeEntries(Tail(cs))

children(n) == DecodeEntries(SubSeq(n.data, 4, Len(n.data)))

WithChildren(n, cs) ==
  [n EXCEPT !.data = <<TagD, CR, LF>> \o EncodeEntries(cs), !.dirty = TRUE]

get_child_by_name(n, name) ==
  LET cs == children(n)
  IN IF \E i \in DOMAIN cs : cs[i].name = name
     THEN cs[CHOOSE i \in DOMAIN cs : cs[i].name = name].key
     ELSE None

\* AlreadyExists leaves the directory as it is; fs.py ignores the signal
add_child(n, key, name) ==
  IF get_child_by_name(n, name) # None THEN n
  ELSE WithChildren(n, Append(children(n), [key |-> key, name |-> name]))

\* an absent key leaves the directory as it is; fs.py ignores the signal
remove_child(n, key) ==
  LET cs == children(n)
  IN IF \E i \in DOMAIN cs : cs[i].key = key
     THEN WithChildren(n, SelectSeq(cs, LAMBDA c : c.key # key))
     ELSE n

\* ---- paths (fs.py:128-138) ----
\* str.split("/")
RECURSIVE Split(_)
Split(p) ==
  IF \E i \in DOMAIN p : p[i] = Slash
  THEN LET i == CHOOSE k \in DOMAIN p : p[k] = Slash /\ \A j \in 1..(k - 1) : p[j] # Slash
       IN << SubSeq(p, 1, i - 1) >> \o Split(SubSeq(p, i + 1, Len(p)))
  ELSE << p >>

\* index of the last "/" of p, 0 if there is none
LastSlash(p) ==
  IF \E i \in DOMAIN p : p[i] = Slash
  THEN CHOOSE k \in DOMAIN p : p[k] = Slash /\ \A j \in (k + 1)..Len(p) : p[j] # Slash
  ELSE 0

\* path.rpartition("/")[0]
get_path_parent(p) == IF LastSlash(p) = 0 THEN <<>> ELSE SubSeq(p, 1, LastSlash(p) - 1)

\* path.rpartition("/")[2]
get_path_filename(p) == SubSeq(p, LastSlash(p) + 1, Len(p))

\* ---- node cache and resolver (fs.py:36-126) ----
\* r is the Name of the node (the node itself is S.on[r]), None, or Raised

\* open_node after Message.open: the type code decides the class
Construct(m, name) ==
  IF ~m.ok THEN [S |-> m.S, r |-> None]
  ELSE IF m.data = <<>> THEN [S |-> m.S, r |-> Raised]
  ELSE IF m.data[1] = TagF
    THEN [S |-> [m.S EXCEPT !.on[name] =
                   [cls |-> "File", data |-> m.data, dirty |-> FALSE, pos |-> 0]],
          r |-> name]
  ELSE IF m.data[1] = TagD
    THEN [S |-> [m.S EXCEPT !.on[name] =
                   [cls |-> "Directory", data |-> m.data, dirty |-> FALSE, pos |-> 0]],
          r |-> name]
  ELSE [S |-> m.S, r |-> Raised]

\* open_node that does not look at the cache
open_node_reload(S, name) == Construct(MessageOpen(S, name), name)

open_node(S, name) ==
  IF S.on[name] # NoNode THEN [S |-> S, r |-> name]
  ELSE Construct(MessageOpen(S, name), name)

\* the loop of get_node_by_path from part i on, cur being current_node
RECURSIVE Walk(_, _, _, _)

\* the end of one round: c is the child as open_node returned it
WalkInto(c, parts, i) == IF c.r < 0 THEN c ELSE Walk(c.S, c.r, parts, i + 1)

WalkChild(S, child_key, parts, i) ==
  IF child_key = None THEN [S |-> S, r |-> None]
  ELSE WalkInto(open_node(S, child_key), parts, i)

Walk(S, cur, parts, i) ==
  IF i > Len(parts) THEN [S |-> S, r |-> cur]
  ELSE IF parts[i] = <<>> THEN Walk(S, cur, parts, i + 1)
  ELSE IF cur < 0 \/ S.on[cur].cls # "Directory" THEN [S |-> S, r |-> cur]
  ELSE WalkChild(S, get_child_by_name(S.on[cur], parts[i]), parts, i)

\* get_node_by_path, root being what open_node(ROOT) returned
FromRoot(root, path) ==
  IF path = <<Slash>> \/ root.r = Raised THEN root
  ELSE Walk(root.S, root.r, Split(path), 1)

get_node_by_path(S, path) == FromRoot(open_node(S, ROOT), path)

\* ---- the session ----
Session == [v |-> versions, c |-> uid_cache, on |-> open_nodes, io |-> <<>>]

\* a store mutation a handler still has to do
Op(op, name) == [op |-> op, name |-> name, uid |-> 0, data |-> <<>>]

\* the Name a pending flush or delete is about (init_filesystem's root is in no cache)
OpNameOf(o) == IF o.name = None THEN ROOT ELSE o.name

NoCall == [op |-> "none", path |-> <<>>, ret |-> "none", buf |-> <<>>, size |-> 0, node |-> None]

Call(op, path, ret) == [op |-> op, path |-> path, ret |-> ret, buf |-> <<>>, size |-> 0, node |-> None]

NoRT == [stage |-> 0, path |-> <<>>, buf |-> <<>>, name |-> None]

\* the worker threads of the dispatcher
Threads == {1, 2}

\* no call is running on any thread
NoThreads == [pc |-> [t \in Threads |-> "idle"], name |-> [t \in Threads |-> None],
              uid |-> [t \in Threads |-> 0], got |-> [t \in Threads |-> None],
              inst |-> [n \in Names |-> 0]]

\* the appends a list of pending operations will make
Puts(S, td) == Cardinality({ i \in DOMAIN td : td[i].op = "flush" /\ S.on[td[i].name].dirty })

Room(S, td) == Len(S.v) + Puts(S, td) <= MaxVersions

\* what every handler does at its end: the session, what is left to do, the result
Commit(S, td, call, r) ==
  /\ Room(S, td)
  /\ versions' = S.v
  /\ uid_cache' = S.c
  /\ open_nodes' = S.on
  /\ io' = S.io
  /\ todo' = td
  /\ last' = call
  /\ rt' = r
  /\ UNCHANGED <<mounted, uidplus, crashes>>
  /\ UNCHANGED env

\* the dispatcher takes one call at a time: the next starts when the last has returned
Idle == todo = <<>> /\ mounted /\ last = NoCall

\* a new mailbox, before the first session
Init ==
  /\ versions = <<>>
  /\ uid_cache = [n \in Names |-> 0]
  /\ open_nodes = [n \in Names |-> NoNode]
  /\ todo = <<>>
  /\ io = <<>>
  /\ last = NoCall
  /\ mounted = FALSE
  /\ uidplus \in BOOLEAN
  /\ nextName = 1
  /\ crashes = 0
  /\ rt = NoRT
  /\ expunged = {}
  /\ thr = NoThreads

\* check_filesystem (fs.py:80-88), root being what open_node(ROOT) returned
CheckRoot(root) ==
  IF root.r = Raised THEN "raise"
  ELSE IF root.r = None \/ root.S.on[root.r].cls # "Directory" THEN "False"
  ELSE IF Slice(root.S.on[root.r].data, 0, 3) # <<TagD, CR, LF>> THEN "False"
  ELSE "True"

check_filesystem(root) ==
  /\ versions' = root.S.v
  /\ uid_cache' = root.S.c
  /\ open_nodes' = root.S.on
  /\ io' = root.S.io
  /\ last' = Call("check_filesystem", <<>>, CheckRoot(root))
  /\ mounted' = (mounted \/ CheckRoot(root) = "True")

\* fs.py:72-88
CheckFilesystem ==
  /\ todo = <<>> /\ last = NoCall
  /\ check_filesystem(open_node(Session, ROOT))
  /\ rt' = NoRT
  /\ UNCHANGED <<todo, uidplus, nextName, crashes>>
  /\ UNCHANGED env

\* root.close() of init_filesystem, f being what the first half of the flush returned
init_filesystem(f) ==
  /\ versions' = f.S.v
  /\ uid_cache' = f.S.c
  /\ open_nodes' = f.S.on
  /\ io' = f.S.io
  /\ todo' = IF f.old = 0 THEN <<>>
             ELSE << [op |-> "del", name |-> None, uid |-> f.old, data |-> DirectoryCreate.data] >>

\* fs.py:90-95, started when check_filesystem found no filesystem
InitFilesystem ==
  /\ todo = <<>>
  /\ ~mounted
  /\ last.op = "check_filesystem" /\ last.ret = "False"
  /\ Len(versions) < MaxVersions
  /\ init_filesystem(MessageFlushPut(Session, ROOT, DirectoryCreate))
  /\ last' = Call("init_filesystem", <<>>, "OK")
  /\ mounted' = TRUE
  /\ rt' = NoRT
  /\ UNCHANGED <<uidplus, nextName, crashes>>
  /\ UNCHANGED env

\* ---- the pending store mutations ----
\* the end of the first half of a flush, f being what it returned
Flushed(f, name) ==
  /\ versions' = f.S.v
  /\ uid_cache' = f.S.c
  /\ io' = f.S.io
  /\ IF f.put /\ f.old # 0
     THEN /\ todo' = << [op |-> "del", name |-> name, uid |-> f.old,
                         data |-> open_nodes[name].data] >> \o Tail(todo)
          /\ open_nodes' = open_nodes
     ELSE /\ todo' = Tail(todo)
          /\ open_nodes' = [open_nodes EXCEPT ![name].dirty = FALSE]

\* Message.flush, lines 91-101 (and 107 when there is no old version)
StepFlush ==
  /\ todo # <<>> /\ Head(todo).op = "flush"
  /\ Flushed(MessageFlushPut(Session, Head(todo).name, open_nodes[Head(todo).name]), Head(todo).name)
  /\ UNCHANGED <<last, mounted, uidplus, nextName, crashes, rt>>
  /\ UNCHANGED env

\* the mailbox and the caches after a store call that returned the session d
AfterStore(d) ==
  /\ versions' = d.v
  /\ uid_cache' = d.c
  /\ io' = d.io

\* Message.flush, lines 104-107
StepDelete ==
  /\ todo # <<>> /\ Head(todo).op = "del"
  /\ AfterStore(delete_message(Session, Head(todo).uid))
  /\ open_nodes' = IF Head(todo).name # None /\ open_nodes[OpNameOf(Head(todo))] # NoNode
                   THEN [open_nodes EXCEPT ![Head(todo).name].dirty = FALSE]
                   ELSE open_nodes
  /\ todo' = Tail(todo)
  /\ UNCHANGED <<last, mounted, uidplus, nextName, crashes, rt>>
  /\ UNCHANGED env

\* the pop of close_node (fs.py:69-70) and of unlink (fs.py:244)
StepPop ==
  /\ todo # <<>> /\ Head(todo).op = "pop"
  /\ open_nodes' = [open_nodes EXCEPT ![Head(todo).name] = NoNode]
  /\ io' = <<>>
  /\ todo' = Tail(todo)
  /\ UNCHANGED <<versions, uid_cache, last, mounted, uidplus, nextName, crashes, rt>>
  /\ UNCHANGED env

\* Message.unlink (message.py:138-147)
StepUnlink ==
  /\ todo # <<>> /\ Head(todo).op = "unlink"
  /\ AfterStore(MessageUnlink(Session, Head(todo).name))
  /\ todo' = Tail(todo)
  /\ UNCHANGED <<open_nodes, last, mounted, uidplus, nextName, crashes, rt>>
  /\ UNCHANGED env

\* the call returns to its caller
Return ==
  /\ todo = <<>>
  /\ last # NoCall
  /\ last' = NoCall
  /\ io' = <<>>
  /\ rt' = IF rt.stage = 4 THEN NoRT ELSE rt
  /\ UNCHANGED <<versions, uid_cache, open_nodes, todo, mounted, uidplus, nextName, crashes>>
  /\ UNCHANGED env

\* the session ends without warning: memory is lost, the mailbox stays
Crash ==
  /\ crashes < MaxCrash
  /\ crashes' = crashes + 1
  /\ uid_cache' = [n \in Names |-> 0]
  /\ open_nodes' = [n \in Names |-> NoNode]
  /\ todo' = <<>>
  /\ io' = <<>>
  /\ last' = NoCall
  /\ mounted' = FALSE
  /\ rt' = NoRT
  /\ UNCHANGED <<versions, uidplus, nextName>>
  /\ UNCHANGED env

\* ---- the dispatcher (fs.py:144-292) ----
IsDir(S, r) == r >= 0 /\ S.on[r].cls = "Directory"
IsFile(S, r) == r >= 0 /\ S.on[r].cls = "File"

\* one handler branch that returns ret without touching any node
Fail(S, op, path, ret) == Commit(S, <<>>, Call(op, path, ret), NoRT) /\ UNCHANGED nextName

GetattrNode(n, path) ==
  IF n.r = Raised THEN Fail(n.S, "getattr", path, "RAISE")
  ELSE IF n.r = None THEN Fail(n.S, "getattr", path, "ENOENT")
  ELSE IF IsDir(n.S, n.r)
    THEN Commit(n.S, <<>>, [Call("getattr", path, "S_IFDIR") EXCEPT !.size = 4096], NoRT)
         /\ UNCHANGED nextName
  ELSE Commit(n.S, <<>>, [Call("getattr", path, "S_IFREG") EXCEPT !.size = FileSize(n.S.on[n.r])], NoRT)
       /\ UNCHANGED nextName

\* fs.py:144-161
Getattr(path) == Idle /\ GetattrNode(get_node_by_path(Session, path), path)

\* the parent lookup of mkdir returns EEXIST (fs.py:181), that of mknod ENOENT (fs.py:214)
MkdirNoParent == "EEXIST"
MknodNoParent == "ENOENT"

\* child.flush(); parent.flush()  (fs.py:187-188)
MkdirSteps(child, parent) == << Op("flush", child), Op("flush", parent) >>

\* fs.py:183-188, p being the parent
MkdirParent(p, path) ==
  IF p.r = Raised THEN Fail(p.S, "mkdir", path, "RAISE")
  ELSE IF p.r = None THEN Fail(p.S, "mkdir", path, MkdirNoParent)
  ELSE IF ~IsDir(p.S, p.r) THEN Fail(p.S, "mkdir", path, "RAISE")
  ELSE /\ nextName <= MaxNames
       /\ nextName' = nextName + 1
       /\ Commit([p.S EXCEPT !.on[nextName] = DirectoryCreate,
                             !.on[p.r] = add_child(p.S.on[p.r], nextName, get_path_filename(path))],
                 MkdirSteps(nextName, p.r), Call("mkdir", path, "OK"), NoRT)

MkdirNode(n, path) ==
  IF n.r = Raised THEN Fail(n.S, "mkdir", path, "RAISE")
  ELSE IF n.r # None THEN Fail(n.S, "mkdir", path, "EEXIST")
  ELSE MkdirParent(get_node_by_path(n.S, get_path_parent(path)), path)

\* fs.py:174-188
Mkdir(path) == Idle /\ MkdirNode(get_node_by_path(Session, path), path)

\* rmdir that deletes the child's object before it flushes the parent
RmdirSteps_childfirst(child, parent) ==
  << Op("flush", child), Op("pop", child), Op("unlink", child), Op("flush", parent) >>

\* parent.flush(); close_node(child); Message.unlink(child)  (fs.py:203-205)
RmdirSteps(child, parent) ==
  << Op("flush", parent), Op("flush", child), Op("pop", child), Op("unlink", child) >>

\* fs.py:198-205, c being the child's Name and p the parent
RmdirParent(p, c, path) ==
  IF p.r = Raised THEN Fail(p.S, "rmdir", path, "RAISE")
  ELSE IF p.r = None THEN Fail(p.S, "rmdir", path, "ENOENT")
  ELSE IF ~IsDir(p.S, p.r) THEN Fail(p.S, "rmdir", path, "RAISE")
  ELSE Commit([p.S EXCEPT !.on[p.r] = remove_child(p.S.on[p.r], c)], RmdirSteps(c, p.r),
              [Call("rmdir", path, "OK") EXCEPT !.node = c], NoRT)
       /\ UNCHANGED nextName

\* rmdir that takes the child out of the root before it looks at the
\* child's own children
RmdirNode_unlinkfirst(c, path) ==
  IF c.r = Raised THEN Fail(c.S, "rmdir", path, "RAISE")
  ELSE IF c.r = None THEN Fail(c.S, "rmdir", path, "ENOENT")
  ELSE IF ~IsDir(c.S, c.r) THEN Fail(c.S, "rmdir", path, "RAISE")
  ELSE IF Len(children(c.S.on[c.r])) > 0
    THEN Fail([c.S EXCEPT !.on[ROOT] = remove_child(c.S.on[ROOT], c.r)], "rmdir", path, "ENOTEMPTY")
  ELSE RmdirParent(get_node_by_path(c.S, get_path_parent(path)), c.r, path)

\* a File has no children: len(child.children) raises
RmdirNode(c, path) ==
  IF c.r = Raised THEN Fail(c.S, "rmdir", path, "RAISE")
  ELSE IF c.r = None THEN Fail(c.S, "rmdir", path, "ENOENT")
  ELSE IF ~IsDir(c.S, c.r) THEN Fail(c.S, "rmdir", path, "RAISE")
  ELSE IF Len(children(c.S.on[c.r])) > 0 THEN Fail(c.S, "rmdir", path, "ENOTEMPTY")
  ELSE RmdirParent(get_node_by_path(c.S, get_path_parent(path)), c.r, path)

\* fs.py:190-205
Rmdir(path) == Idle /\ RmdirNode(get_node_by_path(Session, path), path)

\* close_node(node); parent.flush()  (fs.py:220-221)
MknodSteps(node, parent) == << Op("flush", node), Op("pop", node), Op("flush", parent) >>

\* fs.py:216-221, p being the parent
MknodParent(p, path) ==
  IF p.r = Raised THEN Fail(p.S, "mknod", path, "RAISE")
  ELSE IF p.r = None THEN Fail(p.S, "mknod", path, MknodNoParent)
  ELSE IF ~IsDir(p.S, p.r) THEN Fail(p.S, "mknod", path, "RAISE")
  ELSE /\ nextName <= MaxNames
       /\ nextName' = nextName + 1
       /\ Commit([p.S EXCEPT !.on[nextName] = FileCreate,
                             !.on[p.r] = add_child(p.S.on[p.r], nextName, get_path_filename(path))],
                 MknodSteps(nextName, p.r), Call("mknod", path, "OK"),
                 [stage |-> 1, path |-> path, buf |-> <<>>, name |-> nextName])

MknodNode(n, path) ==
  IF n.r = Raised THEN Fail(n.S, "mknod", path, "RAISE")
  ELSE IF n.r # None THEN Fail(n.S, "mknod", path, "EEXIST")
  ELSE MknodParent(get_node_by_path(n.S, get_path_parent(path)), path)

\* fs.py:207-221
Mknod(path) == Idle /\ MknodNode(get_node_by_path(Session, path), path)

\* fs.py:228-230: the modification time is not part of the modelled blob, so
\* the call marks the node dirty and flushes it
UtimeNode(n, path) ==
  IF n.r = Raised THEN Fail(n.S, "utime", path, "RAISE")
  ELSE IF n.r = None THEN Fail(n.S, "utime", path, "ENOENT")
  ELSE Commit([n.S EXCEPT !.on[n.r].dirty = TRUE], << Op("flush", n.r) >>,
              Call("utime", path, "OK"), NoRT)
       /\ UNCHANGED nextName

\* fs.py:223-230
Utime(path) == Idle /\ UtimeNode(get_node_by_path(Session, path), path)

\* parent.flush(); node.delete(); open_nodes.pop(node)  (fs.py:242-244)
UnlinkSteps(node, parent) == << Op("flush", parent), Op("unlink", node), Op("pop", node) >>

\* fs.py:237-244, n being the file's Name and p the parent; a File has no
\* remove_child
UnlinkParent(p, n, path) ==
  IF p.r = Raised THEN Fail(p.S, "unlink", path, "RAISE")
  ELSE IF p.r = None THEN Fail(p.S, "unlink", path, "ENOENT")
  ELSE IF ~IsDir(p.S, p.r) THEN Fail(p.S, "unlink", path, "RAISE")
  ELSE Commit([p.S EXCEPT !.on[p.r] = remove_child(p.S.on[p.r], n)], UnlinkSteps(n, p.r),
              [Call("unlink", path, "OK") EXCEPT !.node = n], NoRT)
       /\ UNCHANGED nextName

UnlinkNode(n, path) ==
  IF n.r = Raised THEN Fail(n.S, "unlink", path, "RAISE")
  ELSE IF n.r = None \/ ~IsFile(n.S, n.r) THEN Fail(n.S, "unlink", path, "ENOENT")
  ELSE UnlinkParent(get_node_by_path(n.S, get_path_parent(path)), n.r, path)

\* fs.py:232-244
Unlink(path) == Idle /\ UnlinkNode(get_node_by_path(Session, path), path)

TruncateNode(n, path, size) ==
  IF n.r = Raised THEN Fail(n.S, "truncate", path, "RAISE")
  ELSE IF n.r = None THEN Fail(n.S, "truncate", path, "ENOENT")
  ELSE IF ~IsFile(n.S, n.r) THEN Fail(n.S, "truncate", path, "EISDIR")
  ELSE Commit([n.S EXCEPT !.on[n.r] = MessageTruncate(@, size + 1)],
              << Op("flush", n.r) >>,
              [Call("truncate", path, "OK") EXCEPT !.size = size], NoRT)
       /\ UNCHANGED nextName

\* fs.py:246-255
Truncate(path, size) == Idle /\ TruncateNode(get_node_by_path(Session, path), path, size)

\* fs.py:264-269, rd being what node.read returned
ReadDone(S, name, rd, path, size, offset) ==
  Commit([S EXCEPT !.on[name] = rd.m], <<>>,
         [Call("read", path, "OK") EXCEPT !.buf = rd.buf, !.size = size],
         IF rt.stage = 3 /\ rt.path = path /\ offset = 0 /\ size = Len(rt.buf)
         THEN [rt EXCEPT !.stage = 4] ELSE NoRT)
  /\ UNCHANGED nextName

ReadNode(n, path, size, offset) ==
  IF n.r = Raised THEN Fail(n.S, "read", path, "RAISE")
  ELSE IF n.r = None THEN Fail(n.S, "read", path, "ENOENT")
  ELSE IF ~IsFile(n.S, n.r) THEN Fail(n.S, "read", path, "EISDIR")
  ELSE ReadDone(n.S, n.r, FileRead(FileSeek(n.S.on[n.r], offset), size), path, size, offset)

\* fs.py:257-269
Read(path, size, offset) == Idle /\ ReadNode(get_node_by_path(Session, path), path, size, offset)

WriteNode(n, path, buf, offset) ==
  IF n.r = Raised THEN Fail(n.S, "write", path, "RAISE")
  ELSE IF n.r = None THEN Fail(n.S, "write", path, "ENOENT")
  ELSE IF ~IsFile(n.S, n.r) THEN Fail(n.S, "write", path, "EISDIR")
  ELSE Commit([n.S EXCEPT !.on[n.r] = FileWrite(FileSeek(@, offset), buf)], <<>>,
              [Call("write", path, "OK") EXCEPT !.buf = buf, !.size = Len(buf)],
              IF rt.stage = 1 /\ rt.path = path /\ offset = 0
              THEN [rt EXCEPT !.stage = 2, !.buf = buf] ELSE NoRT)
       /\ UNCHANGED nextName

\* fs.py:271-285
Write(path, buf, offset) == Idle /\ WriteNode(get_node_by_path(Session, path), path, buf, offset)

\* close_node: node.close(), then the pop  (fs.py:64-70)
close_node(node) == << Op("flush", node), Op("pop", node) >>

ReleaseNode(n, path) ==
  IF n.r = Raised THEN Fail(n.S, "release", path, "RAISE")
  ELSE IF n.r = None THEN Fail(n.S, "release", path, "ENOENT")
  ELSE Commit(n.S, close_node(n.r), Call("release", path, "OK"),
              IF rt.stage = 2 /\ rt.path = path THEN [rt EXCEPT !.stage = 3] ELSE NoRT)
       /\ UNCHANGED nextName

\* fs.py:287-292
Release(path) == Idle /\ ReleaseNode(get_node_by_path(Session, path), path)

Next ==
  \/ CheckFilesystem
  \/ InitFilesystem
  \/ \E path \in Paths : Getattr(path)
  \/ \E path \in Paths : Mkdir(path)
  \/ \E path \in Paths : Rmdir(path)
  \/ \E path \in Paths : Mknod(path)
  \/ \E path \in Paths : Utime(path)
  \/ \E path \in Paths : Unlink(path)
  \/ \E path \in Paths, size \in 0..MaxSize : Truncate(path, size)
  \/ \E path \in Paths, size \in 0..MaxLen, offset \in 0..MaxOff : Read(path, size, offset)
  \/ \E path \in Paths, buf \in Bufs, offset \in 0..MaxOff : Write(path, buf, offset)
  \/ \E path \in Paths : Release(path)
  \/ StepFlush
  \/ StepDelete
  \/ StepPop
  \/ StepUnlink
  \/ Return
  \/ Crash

Spec == Init /\ [][Next]_vars

\* ---- start-up on a mailbox that may already hold a root object ----
RootBlobs == UNION { [1..n -> {TagD, TagF, CR, LF, 0}] : n \in 0..3 }

InitBoot ==
  /\ versions \in { <<>> } \cup
                  { << [subject |-> ROOT, data |-> b64encode(b), deleted |-> FALSE] >> : b \in RootBlobs }
  /\ uid_cache = [n \in Names |-> 0]
  /\ open_nodes = [n \in Names |-> NoNode]
  /\ todo = <<>>
  /\ io = <<>>
  /\ last = NoCall
  /\ mounted = FALSE
  /\ uidplus \in BOOLEAN
  /\ nextName = 1
  /\ crashes = 0
  /\ rt = NoRT
  /\ expunged = {}
  /\ thr = NoThreads

NextBoot ==
  \/ CheckFilesystem
  \/ InitFilesystem
  \/ StepDelete
  \/ Return
  \/ Crash

SpecBoot == InitBoot /\ [][NextBoot]_vars

\* ---- the connection and Message called directly ----
\* Any sequence of get_uid_by_subject, Message.open, put_message,
\* delete_message, Message.flush and Message.unlink on one connection.
ConnNames == {ROOT, 1}
ConnData == { <<TagF>>, <<TagD, CR, LF>> }

\* a Message with unsaved data
DirtyMessage(data) == [cls |-> "File", data |-> data, dirty |-> TRUE, pos |-> 0]

\* the second half of Message.flush (message.py:104-105)
FlushWhole(f) == IF f.put /\ f.old # 0 THEN delete_message(f.S, f.old) ELSE f.S

\* the call returns with the session S
ConnDone(S, call) ==
  /\ versions' = S.v
  /\ uid_cache' = S.c
  /\ io' = S.io
  /\ last' = call
  /\ UNCHANGED <<open_nodes, todo, mounted, uidplus, nextName, crashes, rt>>
  /\ UNCHANGED env

ConnLookupDone(u, n) ==
  ConnDone(u.S, [Call("get_uid_by_subject", <<>>, IF u.r = 0 THEN "None" ELSE "OK")
                   EXCEPT !.size = u.r, !.node = n])

\* imapconnection.py:117-130
ConnLookup(n) == ConnLookupDone(get_uid_by_subject(Session, n), n)

\* the exception that left Message.open, if any
OpenResult(m) ==
  IF m.ok THEN "OK"
  ELSE IF \E i \in DOMAIN m.S.io : m.S.io[i] = "RuntimeError" THEN "RuntimeError"
  ELSE "IOError"

ConnOpenDone(m, n) ==
  ConnDone(m.S, [Call("open", <<>>, OpenResult(m)) EXCEPT !.buf = m.data, !.node = n])

\* message.py:120-136
ConnOpen(n) == ConnOpenDone(MessageOpen(Session, n), n)

\* imapconnection.py:71-91
ConnPut(n, data) ==
  /\ Len(versions) < MaxStore
  /\ ConnDone(put_message(Session, n, data),
              [Call("put_message", <<>>, "OK") EXCEPT !.buf = data, !.node = n])

\* imapconnection.py:93-101
ConnDelete(uid) ==
  /\ uid \in DOMAIN versions
  /\ ConnDone(delete_message(Session, uid),
              [Call("delete_message", <<>>, "OK") EXCEPT !.size = uid])

\* message.py:88-107, of a Message with unsaved data
ConnFlush(n, data) ==
  /\ Len(versions) < MaxStore
  /\ ConnDone(FlushWhole(MessageFlushPut(Session, n, DirtyMessage(data))),
              [Call("flush", <<>>, "OK") EXCEPT !.buf = data, !.node = n])

\* message.py:138-147
ConnUnlink(n) ==
  ConnDone(MessageUnlink(Session, n), [Call("unlink", <<>>, "OK") EXCEPT !.node = n])

NextConn ==
  \/ \E n \in ConnNames : ConnLookup(n)
  \/ \E n \in ConnNames : ConnOpen(n)
  \/ \E n \in ConnNames, data \in ConnData : ConnPut(n, data)
  \/ \E uid \in 1..MaxStore : ConnDelete(uid)
  \/ \E n \in ConnNames, data \in ConnData : ConnFlush(n, data)
  \/ \E n \in ConnNames : ConnUnlink(n)

SpecConn == Init /\ [][NextConn]_vars

\* another user of the mailbox sends EXPUNGE: every message flagged \Deleted
\* is removed for good
Expunge ==
  /\ expunged' = { i \in DOMAIN versions : versions[i].deleted }
  /\ expunged' # expunged
  /\ UNCHANGED <<versions, uid_cache, open_nodes, todo, io, last, mounted,
                 uidplus, nextName, crashes, rt, thr>>

NextShared ==
  \/ NextConn
  \/ Expunge

\* the same calls on a mailbox that is expunged from outside
SpecShared == Init /\ [][NextShared]_vars

\* ---- open_node called from two worker threads (fs.py:36-62) ----
\* fs.py takes no lock and python-fuse runs each call on its own thread; a
\* thread is suspended only while it waits for the server, so a call of
\* open_node is three steps: the look into the cache, the answer to the
\* search, the answer to the fetch.  thr.inst[n] is the thread whose object
\* is registered under n (0: loaded by no thread), thr.got[t] the thread
\* whose object the call of t has returned.

\* the mailbox after init_filesystem and mknod("/a") of an earlier session
ThreadMailbox ==
  << [subject |-> ROOT, data |-> b64encode(DirectoryCreate.data), deleted |-> TRUE],
     [subject |-> 1, data |-> b64encode(FileCreate.data), deleted |-> FALSE],
     [subject |-> ROOT,
      data |-> b64encode(add_child(DirectoryCreate, 1, <<97>>).data), deleted |-> FALSE] >>

InitThreads ==
  /\ versions = ThreadMailbox
  /\ uid_cache = [n \in Names |-> 0]
  /\ open_nodes = [n \in Names |-> NoNode]
  /\ todo = <<>>
  /\ io = <<>>
  /\ last = NoCall
  /\ mounted = TRUE
  /\ uidplus \in BOOLEAN
  /\ nextName = 2
  /\ crashes = 0
  /\ rt = NoRT
  /\ expunged = {}
  /\ thr = NoThreads

ThreadFrame == UNCHANGED <<versions, todo, last, mounted, uidplus, nextName, crashes, rt, expunged>>

\* fs.py:41-45: the cached object, or the lookup is on its way
T_Open(t, n) ==
  /\ thr.pc[t] = "idle"
  /\ thr' = IF open_nodes[n] # NoNode
            THEN [thr EXCEPT !.pc[t] = "done", !.name[t] = n, !.got[t] = thr.inst[n]]
            ELSE [thr EXCEPT !.pc[t] = "search", !.name[t] = n]
  /\ io' = <<>>
  /\ UNCHANGED <<uid_cache, open_nodes>>
  /\ ThreadFrame

\* the lookup u has returned (message.py:126-128)
T_Searched(t, u) ==
  /\ uid_cache' = u.S.c
  /\ io' = u.S.io
  /\ thr' = IF u.r = 0 THEN [thr EXCEPT !.pc[t] = "done", !.got[t] = None]
            ELSE [thr EXCEPT !.pc[t] = "fetch", !.uid[t] = u.r]

T_Search(t) ==
  /\ thr.pc[t] = "search"
  /\ T_Searched(t, get_uid_by_subject(Session, thr.name[t]))
  /\ UNCHANGED open_nodes
  /\ ThreadFrame

\* the object c is built and registered (fs.py:51-62)
T_Fetched(t, c) ==
  /\ uid_cache' = c.S.c
  /\ io' = c.S.io
  /\ open_nodes' = c.S.on
  /\ thr' = IF c.r < 0 THEN [thr EXCEPT !.pc[t] = "done", !.got[t] = c.r]
            ELSE [thr EXCEPT !.pc[t] = "done", !.got[t] = t, !.inst[c.r] = t]

T_Fetch(t) ==
  /\ thr.pc[t] = "fetch"
  /\ T_Fetched(t, Construct(get_message(Session, thr.uid[t]), thr.name[t]))
  /\ ThreadFrame

\* the call that used the object is over
T_Return(t) ==
  /\ thr.pc[t] = "done"
  /\ \A o \in Threads : thr.pc[o] \in {"idle", "done"}
  /\ thr' = [thr EXCEPT !.pc[t] = "idle", !.name[t] = None, !.uid[t] = 0, !.got[t] = None]
  /\ io' = <<>>
  /\ UNCHANGED <<uid_cache, open_nodes>>
  /\ ThreadFrame

NextThreads ==
  \/ \E t \in Threads, n \in Names : T_Open(t, n)
  \/ \E t \in Threads : T_Search(t)
  \/ \E t \in Threads : T_Fetch(t)
  \/ \E t \in Threads : T_Return(t)

SpecThreads == InitThreads /\ [][NextThreads]_vars

\* ---- properties ----
EmptyCache == [n \in Names |-> 0]
NoNodes == [n \in Names |-> NoNode]

\* the undeleted versions of a Name
LiveOf(v, n) == { u \in DOMAIN v : v[u].subject = n /\ ~v[u].deleted }

\* what a new session (empty caches) gets when it opens a Name
FreshOpen(v, n) == MessageOpen([v |-> v, c |-> EmptyCache, on |-> NoNodes, io |-> <<>>], n)

\* what this session gets when it opens a Name from the store
CachedOpen(v, c, n) == MessageOpen([v |-> v, c |-> c, on |-> NoNodes, io |-> <<>>], n)

\* this step is the delete that ends a flush
FlushEnds == todo # <<>> /\ Head(todo).op = "del" /\ crashes' = crashes

\* this step is the first half of a flush
FlushBegins == todo # <<>> /\ Head(todo).op = "flush" /\ crashes' = crashes

\* C1: createFile(p), writeAt(p, B, 0), release(p), readAt(p, |B|, 0) returns
\* exactly B, and the release has removed the node from the node cache, so
\* the read reopens it from the store.
C1_RoundTrip ==
  /\ rt.stage = 4 => (last.op = "read" /\ last.ret = "OK" /\ last.buf = rt.buf)
  /\ (rt.stage = 3 /\ todo = <<>>) => open_nodes[rt.name] = NoNode

C1_Witness == rt.stage = 4 /\ Len(rt.buf) = MaxLen /\ last.buf = rt.buf /\ 255 \in { rt.buf[i] : i \in DOMAIN rt.buf }

\* C2: when a flush of a Name that had a version ends, the version it
\* deletes is the one the previous flush appended (the second newest), it is
\* distinct from the new one and is now marked deleted, the new one is not,
\* and a get by Name, from this session's uid cache or by a fresh search,
\* returns the content just flushed.
C2_SecondFlush ==
  [][FlushEnds =>
       LET n == OpNameOf(Head(todo))
           old == Head(todo).uid
           vs == search_by_subject(versions', n)
           new == vs[Len(vs)]
       IN /\ Len(vs) >= 2
          /\ old = vs[Len(vs) - 1]
          /\ old # new
          /\ versions'[old].deleted
          /\ ~versions'[new].deleted
          /\ CachedOpen(versions', uid_cache', n).ok
          /\ CachedOpen(versions', uid_cache', n).data = Head(todo).data
          /\ FreshOpen(versions', n).ok
          /\ FreshOpen(versions', n).data = Head(todo).data]_vars

C2_Witness ==
  /\ io = <<"STORE">>
  /\ last.op = "release"
  /\ \E n \in Names : Len(search_by_subject(versions, n)) >= 2 /\ Cardinality(LiveOf(versions, n)) = 1

\* C3: a flush appends before it deletes.  The first half of a flush appends
\* the new version and leaves every older version as it was; neither half
\* leaves the Name without an undeleted version; and between the two halves
\* a new session that looks the Name up gets the new content.
C3_AppendBeforeDelete ==
  [][(FlushBegins \/ FlushEnds) =>
       LET n == OpNameOf(Head(todo))
       IN /\ LiveOf(versions, n) # {} => LiveOf(versions', n) # {}
          /\ (FlushBegins /\ todo' # <<>> /\ Head(todo').op = "del") =>
               /\ Len(versions') = Len(versions) + 1
               /\ \A u \in DOMAIN versions : versions'[u] = versions[u]
               /\ Len(versions') \in LiveOf(versions', n)
               /\ FreshOpen(versions', n).ok
               /\ FreshOpen(versions', n).data = open_nodes[n].data]_vars

C3_Witness ==
  /\ todo # <<>> /\ Head(todo).op = "del"
  /\ ~versions[Head(todo).uid].deleted
  /\ Cardinality(LiveOf(versions, OpNameOf(Head(todo)))) = 2

\* C4 as claimed: when a flush ends, exactly one undeleted version of its
\* Name remains, also when a crash had left two.
C4_Heals ==
  [][FlushEnds => Cardinality(LiveOf(versions', OpNameOf(Head(todo)))) = 1]_vars

\* C4 as amended: the delete that ends a flush changes the one version the
\* flush looked up and nothing else, so an undeleted older version stays
\* undeleted: the duplication is not healed, and the new version is the one
\* a lookup returns.
C4_OrphanStays ==
  [][FlushEnds =>
       LET n == OpNameOf(Head(todo))
           old == Head(todo).uid
       IN /\ \A u \in DOMAIN versions : u # old => versions'[u] = versions[u]
          /\ LiveOf(versions', n) = LiveOf(versions, n) \ {old}
          /\ FreshOpen(versions', n).data = Head(todo).data]_vars

C4_Witness ==
  /\ io = <<"STORE">>
  /\ crashes = 1
  /\ \E n \in Names : /\ Len(search_by_subject(versions, n)) = 3
                      /\ Cardinality(LiveOf(versions, n)) = 2

\* C5: a flush of a clean blob sends nothing to the store and changes
\* neither the mailbox, the uid cache nor the buffer; a flush of a dirty blob
\* appends exactly one version, and when it has ended the blob is clean.
C5_CleanFlushNoOp ==
  [][/\ (FlushBegins /\ ~open_nodes[Head(todo).name].dirty) =>
          /\ versions' = versions
          /\ uid_cache' = uid_cache
          /\ io' = <<>>
          /\ open_nodes' = open_nodes
          /\ todo' = Tail(todo)
     /\ (FlushBegins /\ open_nodes[Head(todo).name].dirty) =>
          /\ Len(versions') = Len(versions) + 1
          /\ (todo' = Tail(todo) => ~open_nodes'[Head(todo).name].dirty)
     /\ (FlushEnds /\ Head(todo).name # None) => ~open_nodes'[Head(todo).name].dirty]_vars

C5_Witness ==
  /\ last.op = "release" /\ last.ret = "OK"
  /\ todo # <<>> /\ Head(todo).op = "pop"
  /\ io = <<>>
  /\ open_nodes[Head(todo).name].cls = "File"

\* the content a lookup of a Name finds in the store: its newest version
Stored(v, n) ==
  LET vs == search_by_subject(v, n)
  IN IF vs = <<>> THEN <<>> ELSE b64decode(v[vs[Len(vs)]].data)

StoredChildren(v, n) ==
  IF Len(Stored(v, n)) >= 1 /\ Stored(v, n)[1] = TagD
  THEN DecodeEntries(SubSeq(Stored(v, n), 4, Len(Stored(v, n))))
  ELSE <<>>

\* C6: in every state of the mailbox, also between the store mutations of
\* one call, every child Name in the current stored version of a directory
\* has an undeleted version.
C6_LinkOrder ==
  \A d \in Names : \A i \in DOMAIN StoredChildren(versions, d) :
    LiveOf(versions, StoredChildren(versions, d)[i].key) # {}

C6_Witness ==
  /\ last.op = "rmdir" /\ last.ret = "OK"
  /\ todo # <<>> /\ Head(todo).op = "unlink"
  /\ LiveOf(versions, Head(todo).name) # {}
  /\ StoredChildren(versions, ROOT) = <<>>

\* the walk had to look a segment up inside a File: the parent path of a
\* path of two segments resolves to a File
ThroughFile(path) ==
  /\ Len(path) > 2
  /\ LET p == get_node_by_path([v |-> versions, c |-> uid_cache, on |-> open_nodes, io |-> <<>>],
                               get_path_parent(path))
     IN p.r >= 0 /\ p.S.on[p.r].cls = "File"

\* C7 as claimed: attributes, readAt and writeAt on a path that runs through
\* a file report NotFound.
C7_ThroughFileNotFound ==
  (last.op \in {"getattr", "read", "write"} /\ ThroughFile(last.path)) => last.ret = "ENOENT"

Resolves(path) ==
  get_node_by_path([v |-> versions, c |-> uid_cache, on |-> open_nodes, io |-> <<>>], path).r >= 0

\* C8 as claimed: createDirectory and createFile answer AlreadyExists only
\* when the path itself resolves, and NotFound when the parent does not.
C8_NoParentNotFound ==
  (last.op \in {"mkdir", "mknod"} /\ todo = <<>> /\ last.ret # "OK" /\ ~Resolves(last.path)) =>
     last.ret = "ENOENT"

\* C9 as claimed, second half: when removeDirectory has succeeded and all
\* its store mutations are done, the path no longer resolves, the Name is not
\* in the node cache and its object is marked deleted.
C9_RemovedIsGone ==
  (last.op = "rmdir" /\ last.ret = "OK" /\ todo = <<>>) =>
     /\ open_nodes[last.node] = NoNode
     /\ LiveOf(versions, last.node) = {}
     /\ ~Resolves(last.path)

\* the same for every directory but the root
C9_RemovedIsGoneBelowRoot ==
  (last.op = "rmdir" /\ last.ret = "OK" /\ todo = <<>> /\ last.path # <<Slash>>) =>
     /\ open_nodes[last.node] = NoNode
     /\ LiveOf(versions, last.node) = {}
     /\ ~Resolves(last.path)

\* C9, first half and the success of the second: removeDirectory on a
\* directory with a child answers NotEmpty and changes neither the mailbox
\* nor any node that was in the cache, the directory stays in the cache; on
\* an empty directory it succeeds.
C9_Outcome ==
  [][(Idle /\ last'.op = "rmdir") =>
       LET c == get_node_by_path(Session, last'.path)
       IN (c.r >= 0 /\ c.S.on[c.r].cls = "Directory") =>
            IF Len(children(c.S.on[c.r])) > 0
            THEN /\ last'.ret = "ENOTEMPTY"
                 /\ versions' = versions
                 /\ todo' = <<>>
                 /\ open_nodes'[c.r] = c.S.on[c.r]
                 /\ \A n \in Names : open_nodes[n] # NoNode => open_nodes'[n] = open_nodes[n]
            ELSE last'.ret = "OK"]_vars

\* C10 as claimed, with the values the docstring of check_filesystem gives
\* the three outcomes: None when the root Name has no version, False when it
\* has one that is no directory with the marker, True otherwise.
C10_ThreeOutcomes ==
  last.op = "check_filesystem" =>
    IF search_by_subject(versions, ROOT) = <<>> THEN last.ret = "None"
    ELSE IF Slice(Stored(versions, ROOT), 0, 3) # <<TagD, CR, LF>> THEN last.ret = "False"
    ELSE last.ret = "True"

\* C11 as claimed: once init_filesystem has completed, between any two store
\* mutations of later calls the root Name has an undeleted version that is a
\* directory with the marker, and check_filesystem finds the filesystem.
C11_RootPermanent ==
  (mounted /\ todo = <<>>) =>
     /\ \E u \in LiveOf(versions, ROOT) :
          Slice(b64decode(versions[u].data), 0, 3) = <<TagD, CR, LF>>
     /\ CheckRoot(open_node(Session, ROOT)) = "True"

Cacheless == [Session EXCEPT !.c = EmptyCache]

\* C13: in every state a sequence of connection and Message calls can reach,
\* with or without APPENDUID, each call gives the same result and leaves the
\* same mailbox whether it starts from the uid cache as it is or from an
\* empty one; by induction a whole run with the cache and a run that searches
\* on every lookup return the same values and end in the same mailbox.
C13_CacheTransparent ==
  \A n \in ConnNames :
    /\ get_uid_by_subject(Session, n).r = get_uid_by_subject(Cacheless, n).r
    /\ MessageOpen(Session, n).ok = MessageOpen(Cacheless, n).ok
    /\ MessageOpen(Session, n).data = MessageOpen(Cacheless, n).data
    /\ MessageUnlink(Session, n).v = MessageUnlink(Cacheless, n).v
    /\ \A d \in ConnData :
         FlushWhole(MessageFlushPut(Session, n, DirtyMessage(d))).v
           = FlushWhole(MessageFlushPut(Cacheless, n, DirtyMessage(d))).v

\* a lookup was answered from the cache for a Name with an older version
C13_Witness ==
  /\ last.op = "get_uid_by_subject" /\ last.ret = "OK" /\ io = <<>>
  /\ Len(search_by_subject(versions, last.node)) >= 2
  /\ uid_cache[last.node] = last.size

\* C14 as claimed: Message.open and Message.unlink of a Name without a
\* version to fetch end without an exception from the purge of the cache.
C14_PurgeDoesNotThrow ==
  last.op \in {"open", "unlink"} => \A i \in DOMAIN io : io[i] # "RuntimeError"

\* C17 as claimed, first half: a uid the cache holds for a Name is the last
\* appended version of that Name and is not flagged \Deleted.
C17_CacheCoherent ==
  \A n \in Names :
    uid_cache[n] # 0 =>
      /\ search_by_subject(versions, n) # <<>>
      /\ uid_cache[n] = search_by_subject(versions, n)[Len(search_by_subject(versions, n))]
      /\ ~versions[uid_cache[n]].deleted

\* C17, second half: after put_message or delete_message has returned, the
\* cache holds no uid that is older than the newest version of its Name.
C17_NoOldVersion ==
  \A n \in Names :
    uid_cache[n] # 0 =>
      /\ search_by_subject(versions, n) # <<>>
      /\ uid_cache[n] = search_by_subject(versions, n)[Len(search_by_subject(versions, n))]

\* the content of a file node: the blob without its type byte
Content(n) == Slice(n.data, 1, Len(n.data))

\* the file node a call on path works on, as path resolution hands it over
Resolved(path) == get_node_by_path(Session, path)

\* what C15 asks of a file old that truncate(size) has turned into new
Truncated(old, new, size) ==
  /\ Len(Content(new)) = size
  /\ new.dirty
  /\ IF size >= Len(Content(old))
     THEN /\ Slice(Content(new), 0, Len(Content(old))) = Content(old)
          /\ \A i \in (Len(Content(old)) + 1)..size : Content(new)[i] = Filler
     ELSE /\ Content(new) = Slice(Content(old), 0, size)
          /\ new.pos - 1 <= size

\* C15: a successful truncate(path, size) of a file of length L leaves a file
\* of length size, marked dirty: for size >= L the first L bytes are the old
\* ones and the rest is the filler '.', for size < L the content is the first
\* size bytes of the old one and the cursor is at most size.
C15_Truncate ==
  [][(Idle /\ last'.op = "truncate" /\ last'.ret = "OK") =>
       Truncated(Resolved(last'.path).S.on[Head(todo').name],
                 open_nodes'[Head(todo').name], last'.size)]_vars

\* a file holding one written byte has been truncated to two bytes
C15_Witness ==
  /\ last.op = "truncate" /\ last.ret = "OK" /\ last.size = 2
  /\ \E n \in Names : open_nodes[n].cls = "File" /\ Len(open_nodes[n].data) = 3
                       /\ open_nodes[n].data[2] # Filler /\ open_nodes[n].data[3] = Filler

\* a file of one byte with the cursor behind it has been truncated to nothing
C15_WitnessShrink ==
  /\ last.op = "truncate" /\ last.ret = "OK" /\ last.size = 0 /\ Len(todo) = 1
  /\ \E n \in Names : /\ open_nodes[n] = [cls |-> "File", data |-> <<TagF>>, dirty |-> TRUE, pos |-> 1]
                       /\ Len(Stored(versions, n)) = 2

\* C16 as claimed: between the store mutations of the calls, a node in the
\* cache is dirty exactly when its bytes differ from the current version of
\* its Name in the store.
C16_DirtyIff ==
  todo = <<>> =>
    \A n \in Names :
      open_nodes[n] # NoNode => (open_nodes[n].dirty <=> open_nodes[n].data # Stored(versions, n))

\* C16, the half that holds: a node in the cache that is not dirty holds the
\* bytes of the current version of its Name, so a node whose bytes differ
\* from the store is dirty; a dirty node may hold the stored bytes.
C16_CleanIsStored ==
  \A n \in Names :
    (open_nodes[n] # NoNode /\ ~open_nodes[n].dirty) => open_nodes[n].data = Stored(versions, n)

\* a write has left a file dirty whose bytes are those of the store
C16_Witness ==
  /\ last.op = "write" /\ last.ret = "OK" /\ todo = <<>>
  /\ \E n \in Names \ {ROOT} :
       /\ open_nodes[n].cls = "File" /\ open_nodes[n].dirty
       /\ Len(open_nodes[n].data) = 2
       /\ open_nodes[n].data = Stored(versions, n)

\* C18 as claimed, part (a): two calls of open_node for the same Name that
\* have both returned an object have returned the same object.
C18_OneInstancePerName ==
  \A t1, t2 \in Threads :
    (/\ thr.pc[t1] = "done" /\ thr.pc[t2] = "done"
     /\ thr.name[t1] = thr.name[t2]
     /\ thr.got[t1] \in Threads /\ thr.got[t2] \in Threads)
      => thr.got[t1] = thr.got[t2]

\* C19 as claimed: when the stored content of the Name cannot be decoded (no
\* byte at all, or a first byte that is neither 'f' nor 'd'), no exception
\* leaves open_node and the call that opened the node goes on as for a Name
\* that is not found.
C19_UndecodableIsNotFound ==
  last.op = "check_filesystem" => last.ret # "raise"

\* the error codes a handler returns
ErrorCodes == {"ENOENT", "EEXIST", "ENOTEMPTY", "EISDIR"}

\* C20: a dispatcher call that returns an error code has sent no APPEND and
\* no STORE, leaves the mailbox as it was and nothing left to do, has changed
\* no node that was in the cache, and a node it has added to the cache is
\* the stored version of its Name, not dirty.
C20_ErrorsLeaveStore ==
  [][(Idle /\ last'.ret \in ErrorCodes) =>
       /\ versions' = versions
       /\ todo' = <<>>
       /\ \A i \in DOMAIN io' : io'[i] \notin {"APPEND", "STORE"}
       /\ \A n \in Names :
            IF open_nodes[n] # NoNode THEN open_nodes'[n] = open_nodes[n]
            ELSE open_nodes'[n] # NoNode =>
                   /\ ~open_nodes'[n].dirty
                   /\ open_nodes'[n].data = Stored(versions, n)]_vars

\* removeDirectory of a directory that has a child has answered NotEmpty
C20_Witness ==
  /\ last.op = "rmdir" /\ last.ret = "ENOTEMPTY"
  /\ last.path = <<Slash, 97>>

====
